---------------------------- MODULE Spec2Model ----------------------------
(***************************************************************************)
(* zipassets: static assets served from an archive held in memory.         *)
(*                                                                         *)
(* The model follows the latest revision of the package (the unnamed       *)
(* source part_002: constructor, loaders, ServeHTTP with conditional and   *)
(* range handling) and, for construction, also the constructor of          *)
(* src/zipassets.go, which returns the store itself.                       *)
(*                                                                         *)
(* Text is modelled by TLA+ strings, read character by character           *)
(* (Len, SubSeq, \o), so that prefix tests, splitting, trimming, integer   *)
(* parsing and formatting are computed as the code computes them.          *)
(***************************************************************************)
EXTENDS Integers, Sequences, FiniteSets, TLC

(***************************************************************************)
(* int64.  TLC's integers are 32 bits wide, so the 64-bit two's complement *)
(* arithmetic of the code is modelled at IntBits bits: the same wraparound *)
(* on + and -, the same range check in the integer parse, at a width that  *)
(* leaves room for every size and encoded length of the model.             *)
(***************************************************************************)
IntBits == 16

MaxInt64 == 2^(IntBits - 1) - 1

MinInt64 == -(2^(IntBits - 1))

\* Go's silent wraparound of a signed addition or subtraction
Wrap64(x) == ((x - MinInt64) % (2^IntBits)) + MinInt64

Min(a, b) == IF a < b THEN a ELSE b

(***************************************************************************)
(* strings                                                                 *)
(***************************************************************************)
At(s, i) == SubSeq(s, i, i)

HasPrefix(s, p) == Len(s) >= Len(p) /\ SubSeq(s, 1, Len(p)) = p

HasSuffix(s, p) == Len(s) >= Len(p) /\ SubSeq(s, Len(s) - Len(p) + 1, Len(s)) = p

\* s[i:] of Go, i counted from 0
From(s, i) == SubSeq(s, i + 1, Len(s))

\* strings.Index(s, c) for a one-character c: 0-based position, -1 when absent
RECURSIVE IndexFrom(_, _, _)
IndexFrom(s, c, i) ==
    IF i > Len(s) THEN -1
    ELSE IF At(s, i) = c THEN i - 1
    ELSE IndexFrom(s, c, i + 1)

Index(s, c) == IndexFrom(s, c, 1)

\* strings.LastIndex(s, c) for a one-character c
RECURSIVE LastIndexFrom(_, _, _)
LastIndexFrom(s, c, i) ==
    IF i < 1 THEN -1
    ELSE IF At(s, i) = c THEN i - 1
    ELSE LastIndexFrom(s, c, i - 1)

LastIndex(s, c) == LastIndexFrom(s, c, Len(s))

IsSpace(c) == c = " "

RECURSIVE TrimLeft(_)
TrimLeft(s) ==
    IF Len(s) > 0 /\ IsSpace(At(s, 1)) THEN TrimLeft(From(s, 1)) ELSE s

RECURSIVE TrimRight(_)
TrimRight(s) ==
    IF Len(s) > 0 /\ IsSpace(At(s, Len(s)))
    THEN TrimRight(SubSeq(s, 1, Len(s) - 1)) ELSE s

TrimSpace(s) == TrimRight(TrimLeft(s))

\* strings.Split(s, ","): the pieces between the commas, empty pieces kept
RECURSIVE Split(_, _)
Split(s, sep) ==
    LET i == Index(s, sep)
    IN  IF i < 0 THEN <<s>>
        ELSE <<SubSeq(s, 1, i)>> \o Split(From(s, i + 1), sep)

LowerOf(c) ==
    CASE c = "A" -> "a" [] c = "B" -> "b" [] c = "G" -> "g" [] c = "I" -> "i"
      [] c = "P" -> "p" [] c = "R" -> "r" [] c = "S" -> "s" [] c = "T" -> "t"
      [] c = "Z" -> "z" [] OTHER -> c

RECURSIVE ToLower(_)
ToLower(s) ==
    IF s = "" THEN "" ELSE LowerOf(At(s, 1)) \o ToLower(From(s, 1))

Digits == "0123456789"

IsDigit(c) == Len(c) = 1 /\ Index(Digits, c) >= 0

DigitVal(c) == Index(Digits, c)

\* the digits of a natural number
RECURSIVE UItoa(_)
UItoa(n) ==
    IF n < 10 THEN At(Digits, n + 1)
    ELSE UItoa(n \div 10) \o At(Digits, (n % 10) + 1)

\* strconv.FormatInt(n, 10), fmt's %d
Itoa(n) == IF n < 0 THEN "-" \o UItoa(-n) ELSE UItoa(n)

\* the value of a digit string, saturating above the integer range
RECURSIVE DigitsVal(_, _)
DigitsVal(s, acc) ==
    IF s = "" THEN acc
    ELSE IF ~IsDigit(At(s, 1)) THEN -1
    ELSE IF acc > MaxInt64 + 1 THEN DigitsVal(From(s, 1), acc)
    ELSE DigitsVal(From(s, 1), acc * 10 + DigitVal(At(s, 1)))

\* the range check of ParseInt on a magnitude (-1: not a number)
intInRange(neg, mag) ==
    IF mag < 0 THEN [ok |-> FALSE, v |-> 0]
    ELSE IF neg /\ mag > MaxInt64 + 1 THEN [ok |-> FALSE, v |-> MinInt64]
    ELSE IF ~neg /\ mag > MaxInt64 THEN [ok |-> FALSE, v |-> MaxInt64]
    ELSE [ok |-> TRUE, v |-> IF neg THEN -mag ELSE mag]

unsignedVal(body) == IF body = "" THEN -1 ELSE DigitsVal(body, 0)

\* strconv.ParseInt(s, 10, 64): optional sign, one or more digits, in range
ParseInt(s) ==
    intInRange(HasPrefix(s, "-"),
               unsignedVal(IF HasPrefix(s, "-") \/ HasPrefix(s, "+")
                           THEN From(s, 1) ELSE s))

(***************************************************************************)
(* Range parser                                                            *)
(***************************************************************************)
httpRange(start, length) == [start |-> start, length |-> length]

NoRange == [ok |-> FALSE, r |-> httpRange(0, 0)]

OkRange(start, length) == [ok |-> TRUE, r |-> httpRange(start, length)]

\* r.start = size - i; r.length = size - r.start
suffixAt(start, size) == OkRange(start, Wrap64(size - start))

\* "-N": the last N bytes, N cut down to size
suffixRange(p, size) ==
    IF ~p.ok THEN NoRange
    ELSE suffixAt(Wrap64(size - (IF p.v > size THEN size ELSE p.v)), size)

\* "N-M": M cut down to size - 1
fullRange(start, q, size) ==
    IF ~q.ok \/ start > q.v THEN NoRange
    ELSE OkRange(start,
                 Wrap64(Wrap64((IF q.v >= size THEN Wrap64(size - 1) ELSE q.v) - start)
                        + 1))

\* "N-" and "N-M"
startRange(p, end, size) ==
    IF ~p.ok \/ p.v > size \/ p.v < 0 THEN NoRange
    ELSE IF end = "" THEN OkRange(p.v, Wrap64(size - p.v))
    ELSE fullRange(p.v, ParseInt(end), size)

parseBounds(start, end, size) ==
    IF start = "" THEN suffixRange(ParseInt(end), size)
    ELSE startRange(ParseInt(start), end, size)

splitRange(ra, i, size) ==
    IF i < 0 THEN NoRange
    ELSE parseBounds(TrimSpace(SubSeq(ra, 1, i)), TrimSpace(From(ra, i + 1)), size)

\* one comma-separated entry, already trimmed and not empty
\* (the body of parseRange's loop)
parseOne(ra, size) == splitRange(ra, Index(ra, "-"), size)

RECURSIVE parseEntries(_, _, _)
\* ranges = append(ranges, r), or the error of the entry
parseParsed(one, rest, size, acc) ==
    IF ~one.ok THEN [err |-> TRUE, ranges |-> <<>>]
    ELSE parseEntries(rest, size, Append(acc, one.r))

\* blank entries are skipped
parseEntry(ra, rest, size, acc) ==
    IF ra = "" THEN parseEntries(rest, size, acc)
    ELSE parseParsed(parseOne(ra, size), rest, size, acc)

\* the loop of parseRange over the comma-separated entries
parseEntries(parts, size, acc) ==
    IF parts = <<>> THEN [err |-> FALSE, ranges |-> acc]
    ELSE parseEntry(TrimSpace(Head(parts)), Tail(parts), size, acc)

\* parseRange(s, size): the ranges of a Range header, or the error "invalid range"
parseRange(s, size) ==
    IF s = "" THEN [err |-> FALSE, ranges |-> <<>>]
    ELSE IF ~HasPrefix(s, "bytes=") THEN [err |-> TRUE, ranges |-> <<>>]
    ELSE parseEntries(Split(From(s, 6), ","), size, <<>>)

RECURSIVE sumRangesSize(_)
sumRangesSize(ranges) ==
    IF ranges = <<>> THEN 0
    ELSE Wrap64(Head(ranges).length + sumRangesSize(Tail(ranges)))

\* httpRange.contentRange
contentRange(r, size) ==
    "bytes " \o Itoa(r.start) \o "-" \o Itoa(Wrap64(Wrap64(r.start + r.length) - 1))
             \o "/" \o Itoa(size)


(***************************************************************************)
(* Multipart encoder (mime/multipart as used by ServeHTTP)                 *)
(***************************************************************************)
CRLF == "\r\n"

\* multipart.NewWriter draws a random boundary of 30 bytes written in hex
Boundaries ==
    { "0a1b2c3d4e5f60718293a4b5c6d7e8f90a1b2c3d4e5f60718293a4b5c6d7",
      "f9e8d7c6b5a493827160f5e4d3c2b1a0f9e8d7c6b5a493827160f5e4d3c2" }

\* httpRange.mimeHeader written by Writer.CreatePart: the boundary line (after
\* a CRLF when a part came before), the header lines in key order, a blank line
partHeader(r, contentType, size, boundary, first) ==
    (IF first THEN "" ELSE CRLF) \o "--" \o boundary \o CRLF
    \o "Content-Range: " \o contentRange(r, size) \o CRLF
    \o "Content-Type: " \o contentType \o CRLF
    \o CRLF

\* Writer.Close: the closing boundary line
closeDelimiter(boundary) == CRLF \o "--" \o boundary \o "--" \o CRLF

\* the bytes counted by the countingWriter of rangesMIMESize
RECURSIVE countingWriter(_, _, _, _, _)
countingWriter(ranges, contentType, size, boundary, i) ==
    IF i > Len(ranges) THEN Len(closeDelimiter(boundary))
    ELSE Len(partHeader(ranges[i], contentType, size, boundary, i = 1))
         + countingWriter(ranges, contentType, size, boundary, i + 1)

\* rangesMIMESize: the framing written to the counting sink plus the lengths
rangesMIMESize(ranges, contentType, contentSize, boundary) ==
    Wrap64(sumRangesSize(ranges)
           + countingWriter(ranges, contentType, contentSize, boundary, 1))

(***************************************************************************)
(* Response headers: http.Header, a map from a name to its list of values  *)
(***************************************************************************)
NoHeader == [n \in {} |-> <<>>]

HSet(h, k, v) == [n \in DOMAIN h \cup {k} |-> IF n = k THEN <<v>> ELSE h[n]]

HSetList(h, k, vs) == [n \in DOMAIN h \cup {k} |-> IF n = k THEN vs ELSE h[n]]

HDel(h, k) == [n \in DOMAIN h \ {k} |-> h[n]]

HGet(h, k) == IF k \in DOMAIN h /\ Len(h[k]) > 0 THEN h[k][1] ELSE ""

(***************************************************************************)
(* Time.  An instant is a count of ticks since the zero time.Time; an HTTP *)
(* date is text naming a whole second, written here "@<seconds>".          *)
(***************************************************************************)
TicksPerSec == 2

ZeroTime == 0

IsZero(t) == t = ZeroTime

\* modtime.UTC().Format(http.TimeFormat): the sub-second part is dropped
FormatHTTPTime(t) == "@" \o Itoa(t \div TicksPerSec)

parsedSeconds(s, p) ==
    IF HasPrefix(s, "@") /\ Len(s) > 1 /\ IsDigit(At(s, 2)) /\ p.ok
    THEN [ok |-> TRUE, t |-> p.v * TicksPerSec]
    ELSE [ok |-> FALSE, t |-> ZeroTime]

\* time.Parse(http.TimeFormat, s)
ParseHTTPTime(s) == parsedSeconds(s, ParseInt(From(s, 1)))

(***************************************************************************)
(* Content type                                                            *)
(***************************************************************************)
IsPathSeparator(c) == c = "/"

\* filepath.Ext: from the last dot of the last path element
RECURSIVE ExtFrom(_, _)
ExtFrom(path, i) ==
    IF i < 1 \/ IsPathSeparator(At(path, i)) THEN ""
    ELSE IF At(path, i) = "." THEN From(path, i - 1)
    ELSE ExtFrom(path, i - 1)

Ext(path) == ExtFrom(path, Len(path))

\* mime.TypeByExtension, for the extensions of the model
TypeByExtension(ext) ==
    CASE ext = ".css" -> "text/css; charset=utf-8"
      [] ext = ".png" -> "image/png"
      [] OTHER        -> ""

\* http.DetectContentType of no bytes
DetectContentType(data) ==
    IF data = "" THEN "text/plain; charset=utf-8" ELSE "application/octet-stream"

sniffLen == 512


(***************************************************************************)
(* Archives on disk.  A member is what the archive reader yields for it:   *)
(* name, modification time, directory flag, content, and whether opening   *)
(* or reading it fails ("hdr": the tar header cannot be read).             *)
(***************************************************************************)
Member(name, mtime, content) ==
    [name |-> name, mtime |-> mtime, isDir |-> FALSE, content |-> content,
     fail |-> ""]

Failing(m, how) == [m EXCEPT !.fail = how]

Archive(format, members) == [exists |-> TRUE, format |-> format, members |-> members]

NoFile == [exists |-> FALSE, format |-> "", members |-> <<>>]

Pathnames ==
    { "one.zip", "TWO.ZIP", "e.zip", "raw.zip", "bad.zip", "gone.zip",
      "s.tar.gz", "bad.tar.gz", "s.tar.bz2", "s.rar", "szip" }

\* the file each pathname names
Disk(pathname) ==
    CASE pathname = "one.zip" ->
           Archive("zip", <<Member("a.css", 5, "abcd")>>)
      [] pathname = "TWO.ZIP" ->
           Archive("zip", <<Member("a.css", 5, "hello"), Member("dir/b.png", 4, "xyz")>>)
      [] pathname = "e.zip" ->
           Archive("zip", <<Member("e", ZeroTime, "")>>)
      [] pathname = "raw.zip" ->
           Archive("zip", <<Member("raw", 3, "uvw")>>)
      [] pathname = "bad.zip" ->
           Archive("zip", <<Member("a.css", 5, "abcd"),
                            Failing(Member("b.css", 6, "zz"), "open"),
                            Member("c.css", 7, "q")>>)
      [] pathname = "s.tar.gz" ->
           Archive("tar.gz", <<Member("a.css", 5, "abcd"), Member("t/b.css", 6, "zz")>>)
      [] pathname = "bad.tar.gz" ->
           Archive("tar.gz", <<Member("a.css", 5, "abcd"),
                               Failing(Member("b.css", 6, "zz"), "read")>>)
      [] pathname = "s.tar.bz2" ->
           Archive("tar.bz2", <<Member("a.css", 5, "abcd"),
                                Failing(Member("b.css", 6, "zz"), "hdr")>>)
      [] pathname = "s.rar" ->
           Archive("rar", <<Member("a.css", 5, "abcd")>>)
      [] pathname = "szip" ->
           Archive("zip", <<Member("a.css", 5, "abcd"), Member("b.css", 6, "zz")>>)
      [] OTHER -> NoFile

(***************************************************************************)
(* Archive loader.  za.files maps a member name to a *filecontent; the     *)
(* loaders declare one filecontent variable fc before their loop and store *)
(* its address under every name.                                           *)
(***************************************************************************)
filecontent(name, isDir, lastModified, content) ==
    [name |-> name, isDir |-> isDir, lastModified |-> lastModified,
     content |-> content]

\* the zero value of filecontent
ZeroFilecontent == filecontent("", FALSE, ZeroTime, "")

\* the address of the loop's variable fc
FcAddr == "&fc"

NoFiles == [n \in {} |-> FcAddr]

MapSet(files, k, v) == [n \in DOMAIN files \cup {k} |-> IF n = k THEN v ELSE files[n]]

Loaded(files, fc, err) == [files |-> files, fc |-> fc, err |-> err]

\* the loop of openZip over r.File
RECURSIVE zipLoop(_, _, _, _)
zipLoop(members, i, files, fc) ==
    IF i > Len(members) THEN Loaded(files, fc, "")
    ELSE LET f == members[i]
         IN  IF f.fail = "open" THEN Loaded(files, fc, "open")
             ELSE IF f.fail = "read" THEN Loaded(files, fc, "read")
             ELSE LET fc2 == filecontent(f.name, fc.isDir, f.mtime, f.content)
                  IN  zipLoop(members, i + 1, MapSet(files, f.name, FcAddr), fc2)

openZip(file) ==
    IF ~file.exists \/ file.format # "zip" THEN Loaded(NoFiles, ZeroFilecontent, "open")
    ELSE zipLoop(file.members, 1, NoFiles, ZeroFilecontent)

\* the loop of openTar over tr.Next(): leaving it at the end of the archive
\* leaves io.EOF in the named result err, which the function returns
RECURSIVE tarLoop(_, _, _, _)
tarLoop(members, i, files, fc) ==
    IF i > Len(members) THEN Loaded(files, fc, "EOF")
    ELSE LET hdr == members[i]
         IN  IF hdr.fail = "hdr" THEN Loaded(files, fc, "hdr")
             ELSE IF hdr.fail # ""
             THEN Loaded(files, [fc EXCEPT !.content = ""], "read")
             ELSE LET fc2 == filecontent(hdr.name, hdr.isDir, hdr.mtime, hdr.content)
                  IN  tarLoop(members, i + 1, MapSet(files, hdr.name, FcAddr), fc2)

openTar(file, format) ==
    IF file.format # format THEN Loaded(NoFiles, ZeroFilecontent, "hdr")
    ELSE tarLoop(file.members, 1, NoFiles, ZeroFilecontent)

openTarGz(file) ==
    IF ~file.exists \/ file.format # "tar.gz"
    THEN Loaded(NoFiles, ZeroFilecontent, "open")
    ELSE openTar(file, "tar.gz")

openTarBz2(file) ==
    IF ~file.exists THEN Loaded(NoFiles, ZeroFilecontent, "open")
    ELSE openTar(file, "tar.bz2")

\* basename: the directory joined with the file name up to its first dot
basename(pathname) ==
    LET slash == LastIndex(pathname, "/")
        dir   == IF slash < 0 THEN "." ELSE IF slash = 0 THEN "/"
                 ELSE SubSeq(pathname, 1, slash)
        fn    == From(pathname, slash + 1)
        dot   == Index(fn, ".")
        stem  == IF dot < 0 THEN fn ELSE SubSeq(fn, 1, dot)
    IN  IF dir = "." THEN stem
        ELSE IF dir = "/" THEN "/" \o stem
        ELSE dir \o "/" \o stem

(***************************************************************************)
(* Construction                                                            *)
(***************************************************************************)
Handler(kind, path, files) == [kind |-> kind, path |-> path, files |-> files]

NoHandler == Handler("nil", "", NoFiles)

FileServer(dir) == Handler("FileServer", dir, NoFiles)

Returned(handler, err, fc) == [handler |-> handler, err |-> err, fc |-> fc]

\* the variadic arguments: "true" and "false" are the bool values
DebugArgs == { <<>>, <<"true">>, <<"false">> }

\* the loader chosen by the suffix of the lower-cased path; with no suffix
\* matching no loader runs and err stays nil
loadBySuffix(pathname, zip, targz, tarbz2) ==
    LET lowerPath == ToLower(pathname)
    IN  IF HasSuffix(lowerPath, zip) THEN openZip(Disk(pathname))
        ELSE IF HasSuffix(lowerPath, targz) THEN openTarGz(Disk(pathname))
        ELSE IF HasSuffix(lowerPath, tarbz2) THEN openTarBz2(Disk(pathname))
        ELSE Loaded(NoFiles, ZeroFilecontent, "")

\* NewZipAssets(pathname, args...) of the latest revision
newZipAssets(pathname, args) ==
    IF Len(args) # 0 /\ args[1] = "true"
    THEN Returned(FileServer(basename(pathname)), "", ZeroFilecontent)
    ELSE LET l == loadBySuffix(pathname, ".zip", ".tar.gz", ".tar.bz2")
         IN  IF l.err # ""
             THEN Returned(FileServer(basename(pathname)), l.err, l.fc)
             ELSE Returned(Handler("ZipAssets", pathname, l.files), l.err, l.fc)

\* NewZipAssets(path) of src/zipassets.go: za and err are the named results
newZipAssetsStore(pathname) ==
    LET l == loadBySuffix(pathname, "zip", "tar.gz", "tar.bz2")
    IN  Returned(Handler("ZipAssets", pathname, l.files), l.err, l.fc)


(***************************************************************************)
(* Requests                                                                *)
(***************************************************************************)
StatusOK == 200

StatusPartialContent == 206

StatusNotModified == 304

StatusNotFound == 404

StatusRequestedRangeNotSatisfiable == 416

\* the synchronous pipe between the multipart producer and the handler:
\* data is what is left of the write in progress
Pipe(data, rclosed, wclosed, werr) ==
    [data |-> data, rclosed |-> rclosed, wclosed |-> wclosed, werr |-> werr]

NoPipe == Pipe("", FALSE, FALSE, "")

\* the producer goroutine: its position, the range it is at, the bytes its
\* writes have passed into the pipe
Producer(pc, i, written) == [pc |-> pc, i |-> i, written |-> written]

NoProducer == Producer("none", 0, 0)

Request(method, path, ims, inm, ifrange, range, h0) ==
    [method |-> method, path |-> path, ims |-> ims, inm |-> inm,
     ifrange |-> ifrange, range |-> range, h0 |-> h0]

NoRequest == Request("", "", "", "", "", "", NoHeader)

\* one request being handled: the request, the response written so far, the
\* handler's locals, where the handler returned (exit), the pipe and producer
IdleConn ==
    [pc |-> "idle", req |-> NoRequest, exit |-> "", status |-> <<>>,
     h |-> NoHeader, body |-> "", upath |-> "", ctype |-> "", rangeReq |-> "",
     ranges |-> <<>>, size |-> 0, sendSize |-> 0, code |-> 0, N |-> 0,
     boundary |-> "", pipe |-> NoPipe, prod |-> NoProducer]

\* http.Error: a plain-text error response
Error(c, msg, code, exit) ==
    [c EXCEPT !.pc = "done", !.exit = exit,
              !.h = HSet(HSet(c.h, "Content-Type", "text/plain; charset=utf-8"),
                         "X-Content-Type-Options", "nosniff"),
              !.status = Append(c.status, code),
              !.body = c.body \o msg \o "\n"]

\* a run-time panic in the handler's goroutine: nothing more is written
Panic(c, exit) == [c EXCEPT !.pc = "done", !.exit = exit]

\* the 304 answer of checkLastModified and checkETag
NotModified(c, h, exit) ==
    [c EXCEPT !.pc = "done", !.exit = exit,
              !.h = HDel(HDel(h, "Content-Type"), "Content-Length"),
              !.status = Append(c.status, StatusNotModified)]

\* a variant without the second of slack, mtime <= t, which C9 tells apart
unmodifiedSinceNoSlack(t, modtime) == t.ok /\ modtime <= t.t

\* modtime.Before(t.Add(1*time.Second)) for a date that parsed
unmodifiedSince(t, modtime) == t.ok /\ modtime < t.t + 1 * TicksPerSec

\* checkLastModified: done (304), or Last-Modified set
checkLastModified(h, ims, modtime) ==
    IF IsZero(modtime) THEN [done |-> FALSE, h |-> h]
    ELSE IF unmodifiedSince(ParseHTTPTime(ims), modtime) THEN [done |-> TRUE, h |-> h]
    ELSE [done |-> FALSE, h |-> HSet(h, "Last-Modified", FormatHTTPTime(modtime))]

\* a variant that honours If-None-Match whatever the method, which C10 tells apart
noneMatchAnyMethod(r, etag, rangeReq) ==
    IF r.inm # "" /\ etag # "" /\ (r.inm = etag \/ r.inm = "*")
    THEN [rangeReq |-> "", done |-> TRUE]
    ELSE [rangeReq |-> rangeReq, done |-> FALSE]

\* the If-None-Match part of checkETag
noneMatch(r, etag, rangeReq) ==
    IF r.inm # ""
    THEN IF etag = "" THEN [rangeReq |-> rangeReq, done |-> FALSE]
         ELSE IF r.method # "GET" /\ r.method # "HEAD"
         THEN [rangeReq |-> rangeReq, done |-> FALSE]
         ELSE IF r.inm = etag \/ r.inm = "*" THEN [rangeReq |-> "", done |-> TRUE]
         ELSE [rangeReq |-> rangeReq, done |-> FALSE]
    ELSE [rangeReq |-> rangeReq, done |-> FALSE]

\* a variant that keeps the Range header whatever If-Range says, which C11
\* tells apart
effectiveRangeKept(r, etag) == r.range

\* the If-Range part of checkETag: the effective Range header
effectiveRange(r, etag) ==
    IF r.ifrange # "" /\ r.ifrange # etag THEN "" ELSE r.range

\* checkETag: the effective Range header, and done (304)
checkETag(h, r) ==
    noneMatch(r, HGet(h, "Etag"), effectiveRange(r, HGet(h, "Etag")))

\* the sniffing branch: buf is declared and never allocated (capacity 0), so
\* buf[:n] panics as soon as n > 0
sniff(n, capBuf) ==
    IF n > capBuf THEN [panic |-> TRUE, ctype |-> ""]
    ELSE [panic |-> FALSE, ctype |-> DetectContentType(SubSeq("", 1, n))]

typeOrSniff(byExt, content) ==
    IF byExt # "" THEN [panic |-> FALSE, ctype |-> byExt]
    ELSE sniff(IF Len(content) >= sniffLen THEN sniffLen ELSE Len(content), Len(""))

\* the content type of the entry: the header already set, or the type of the
\* extension, or sniffed
resolveType(h, upath, content) ==
    IF "Content-Type" \notin DOMAIN h
    THEN typeOrSniff(TypeByExtension(Ext(upath)), content)
    ELSE IF Len(h["Content-Type"]) > 0
    THEN [panic |-> FALSE, ctype |-> h["Content-Type"][1]]
    ELSE [panic |-> FALSE, ctype |-> ""]

\* io.CopyN(rw, bytes.NewReader(content), n): the reader starts at offset 0
copyFromStart(content, n) ==
    IF n <= 0 THEN "" ELSE SubSeq(content, 1, Min(n, Len(content)))

\* rw.WriteHeader(code) and the body, unless the method is HEAD
writeResponse(c, fc, multi) ==
    IF multi
    THEN IF c.req.method # "HEAD"
         THEN [c EXCEPT !.pc = "copy", !.N = c.sendSize,
                        !.status = Append(c.status, c.code), !.exit = "served",
                        !.prod = Producer("part", 1, 0)]
         ELSE \* the handler returns: the deferred pr.Close() runs
              [c EXCEPT !.pc = "done",
                        !.status = Append(c.status, c.code), !.exit = "served",
                        !.prod = Producer("part", 1, 0),
                        !.pipe = Pipe("", TRUE, FALSE, "")]
    ELSE IF c.req.method # "HEAD"
         THEN [c EXCEPT !.pc = "done",
                        !.status = Append(c.status, c.code), !.exit = "served",
                        !.body = copyFromStart(fc.content, c.sendSize)]
         ELSE [c EXCEPT !.pc = "done",
                        !.status = Append(c.status, c.code), !.exit = "served"]

\* Content-Length, unless a Content-Encoding is set
setContentLength(h, sendSize) ==
    IF HGet(h, "Content-Encoding") = ""
    THEN HSet(h, "Content-Length", Itoa(sendSize)) ELSE h

\* the last lines of ServeHTTP: Accept-Ranges, Content-Length, status, body
emit(c, fc, multi) ==
    writeResponse(
        [c EXCEPT !.h = setContentLength(HSet(c.h, "Accept-Ranges", "bytes"),
                                         c.sendSize)],
        fc, multi)

\* the switch on len(ranges)
withRanges(c, fc, boundary, estBoundary) ==
    IF Len(c.ranges) = 1
    THEN emit([c EXCEPT !.sendSize = c.ranges[1].length,
                        !.code = StatusPartialContent,
                        !.h = HSet(c.h, "Content-Range",
                                   contentRange(c.ranges[1], c.size))],
              fc, FALSE)
    ELSE IF Len(c.ranges) > 1
    THEN IF \E i \in 1..Len(c.ranges) : c.ranges[i].start > c.size
         THEN \* err is nil here: err.Error() is a nil dereference
              Panic(c, "panic: nil error")
         ELSE emit([c EXCEPT
                      !.sendSize = rangesMIMESize(c.ranges, c.ctype, c.size, estBoundary),
                      !.code = StatusPartialContent,
                      !.boundary = boundary,
                      !.h = HSet(c.h, "Content-Type",
                                 "multipart/byteranges; boundary=" \o boundary)],
                   fc, TRUE)
    ELSE emit(c, fc, FALSE)

\* after parseRange: 416, or the ranges unless they sum to more than the size
afterParse(c, fc, parsed, boundary, estBoundary) ==
    IF parsed.err
    THEN Error(c, "invalid range", StatusRequestedRangeNotSatisfiable, "range")
    ELSE withRanges(
           [c EXCEPT !.ranges = IF sumRangesSize(parsed.ranges) > c.size
                                THEN <<>> ELSE parsed.ranges],
           fc, boundary, estBoundary)

\* the range resolution of ServeHTTP
resolveRanges(c, fc, boundary, estBoundary) ==
    afterParse([c EXCEPT !.size = Len(fc.content), !.sendSize = Len(fc.content),
                         !.code = StatusOK],
               fc, parseRange(c.rangeReq, Len(fc.content)), boundary, estBoundary)

afterType(c, fc, ct, boundary, estBoundary) ==
    IF ct.panic THEN Panic(c, "panic: slice bounds")
    ELSE resolveRanges([c EXCEPT !.ctype = ct.ctype], fc, boundary, estBoundary)

afterETag(c, fc, et, boundary, estBoundary) ==
    IF et.done THEN NotModified(c, c.h, "etag")
    ELSE afterType([c EXCEPT !.rangeReq = et.rangeReq], fc,
                   resolveType(c.h, c.upath, fc.content), boundary, estBoundary)

afterLastModified(c, fc, lm, boundary, estBoundary) ==
    IF lm.done THEN NotModified(c, c.h, "lastmod")
    ELSE afterETag([c EXCEPT !.h = lm.h], fc, checkETag(lm.h, c.req),
                   boundary, estBoundary)

\* the lookup in za.files: 404, or the entry
lookup(za, heap0, c, boundary, estBoundary) ==
    IF c.upath \notin DOMAIN za.files
    THEN Error(c, "404 page not found", StatusNotFound, "notfound")
    ELSE afterLastModified(
           c, heap0[za.files[c.upath]],
           checkLastModified(c.h, c.req.ims, heap0[za.files[c.upath]].lastModified),
           boundary, estBoundary)

\* strings.TrimLeft(s, "/")
RECURSIVE TrimSlashes(_)
TrimSlashes(s) == IF HasPrefix(s, "/") THEN TrimSlashes(From(s, 1)) ELSE s

\* a variant that strips every leading slash of the path, which C12 tells apart
serveHTTPTrimAll(za, heap0, req, boundary, estBoundary) ==
    lookup(za, heap0,
           [IdleConn EXCEPT !.req = req, !.h = req.h0, !.upath = TrimSlashes(req.path)],
           boundary, estBoundary)

\* ServeHTTP up to the point where the handler returns or starts to copy the
\* multipart body out of the pipe
serveHTTP(za, heap0, req, boundary, estBoundary) ==
    lookup(za, heap0,
           [IdleConn EXCEPT !.req = req, !.h = req.h0,
                            !.upath = IF HasPrefix(req.path, "/")
                                      THEN From(req.path, 1) ELSE req.path],
           boundary, estBoundary)

(***************************************************************************)
(* The requests of the model                                               *)
(***************************************************************************)
Methods == { "GET", "HEAD", "POST" }

ETags == { "v1", "v2" }

MaxSec == 3

\* If-Modified-Since: absent, not a date, or the date of a whole second
IMSValues == { "", "x" } \cup { FormatHTTPTime(sec * TicksPerSec) : sec \in 1..MaxSec }

\* the headers the caller has set on the response before the call:
\* ETag or none; Content-Type absent, present without a value, or a value;
\* Content-Encoding or none
Preset(etag, ctype, cenc) ==
    LET h1 == IF etag = "" THEN NoHeader ELSE HSet(NoHeader, "Etag", etag)
        h2 == IF ctype = "unset" THEN h1
              ELSE IF ctype = "nil" THEN HSetList(h1, "Content-Type", <<>>)
              ELSE HSet(h1, "Content-Type", ctype)
    IN  IF cenc = "" THEN h2 ELSE HSet(h2, "Content-Encoding", cenc)

RangeHeaders ==
    { "", "bytes=0-1", "bytes=1-2", "bytes=-2", "bytes=1-", "bytes=0-9",
      "bytes=0-0,2-2", "bytes= 0 - 1 , ,1-2", "bytes=0-2,0-2",
      "foo=0-1", "bytes=9-", "bytes=1", "bytes=a-1",
      "bytes=--2", "bytes=--2,0-0",
      "bytes=-" \o Itoa(MinInt64) \o ",0-0",
      "bytes=-" \o Itoa(MinInt64) \o ",-" \o Itoa(MinInt64) }

\* the URL paths asked of a store: each key with one, no and two leading
\* slashes, and a path no archive of the model has
PathsOf(files) ==
    { "/nope" } \cup { "/" \o k : k \in DOMAIN files } \cup (DOMAIN files)
                \cup { "//" \o k : k \in DOMAIN files }

\* requests that vary the conditional headers
CondRequests(files) ==
    { Request(m, p, ims, inm, "", rg, Preset(etag, ct, ""))
        : m \in Methods, p \in PathsOf(files), ims \in IMSValues,
          inm \in { "", "*" } \cup ETags, rg \in { "", "bytes=1-2" },
          etag \in { "", "v1" }, ct \in { "unset", "image/png" } }

\* requests that vary the range, If-Range and the headers set beforehand
RangeRequests(files) ==
    { Request(m, "/" \o k, "", "", ir, rg, Preset(etag, ct, cenc))
        : m \in Methods, k \in DOMAIN files, ir \in { "" } \cup ETags,
          rg \in RangeHeaders, etag \in { "", "v1" },
          ct \in { "unset", "nil", "image/png" }, cenc \in { "", "gzip" } }

Requests(files) == CondRequests(files) \cup RangeRequests(files)

(***************************************************************************)
(* State                                                                   *)
(***************************************************************************)
NumSlots == 2

Slots == 1..NumSlots

VARIABLES
    call,   \* the constructor call: pathname, args, and which constructor ran
    ret,    \* what the constructor returned: handler, err
    heap,   \* the filecontent structs the store's pointers refer to
    conn,   \* per connection slot, the request in progress
    probe   \* a direct call of parseRange: header, size, result

vars == <<call, ret, heap, conn, probe>>

NoProbe == [s |-> "", size |-> 0, called |-> FALSE, err |-> FALSE, ranges |-> <<>>]

Init ==
    /\ call \in [pathname : Pathnames, args : DebugArgs, fn : { "" }]
    /\ ret = [handler |-> NoHandler, err |-> ""]
    /\ heap = [a \in { FcAddr } |-> ZeroFilecontent]
    /\ conn = [s \in Slots |-> IdleConn]
    /\ probe = NoProbe

\* NewZipAssets(pathname, args...) (latest revision)
NewZipAssets ==
    /\ call.fn = ""
    /\ LET r == newZipAssets(call.pathname, call.args)
       IN  /\ ret' = [handler |-> r.handler, err |-> r.err]
           /\ heap' = [a \in { FcAddr } |-> r.fc]
    /\ call' = [call EXCEPT !.fn = "NewZipAssets"]
    /\ UNCHANGED <<conn, probe>>

\* NewZipAssets(path) of src/zipassets.go
NewZipAssetsStore ==
    /\ call.fn = ""
    /\ call.args = <<>>
    /\ LET r == newZipAssetsStore(call.pathname)
       IN  /\ ret' = [handler |-> r.handler, err |-> r.err]
           /\ heap' = [a \in { FcAddr } |-> r.fc]
    /\ call' = [call EXCEPT !.fn = "NewZipAssetsStore"]
    /\ UNCHANGED <<conn, probe>>

\* the store is served once the latest constructor has returned it as handler
Serving == call.fn = "NewZipAssets" /\ ret.handler.kind = "ZipAssets"

\* a panic in the producer goroutine is recovered by nobody: the process ends
Crashed == \E s \in Slots : conn[s].prod.pc = "panic"

\* the entry a slot's request resolved to
EntryOf(s) == heap[ret.handler.files[conn[s].upath]]

\* the boundaries the two multipart writers of a request may draw (one pair
\* when the Range header names a single range and no writer is made)
BoundaryPairs(req) ==
    IF Index(req.range, ",") >= 0 THEN Boundaries \X Boundaries
    ELSE { <<"", "">> }

\* ServeHTTP called on slot s with one of the requests reqs
ServeHTTP(s, reqs) ==
    /\ Serving
    /\ ~Crashed
    /\ conn[s].pc = "idle"
    /\ \E req \in reqs :
         \E bb \in BoundaryPairs(req) :
            conn' = [conn EXCEPT ![s] = serveHTTP(ret.handler, heap, req, bb[1], bb[2])]
    /\ UNCHANGED <<call, ret, heap, probe>>

(***************************************************************************)
(* The multipart body: the producer goroutine writes into the pipe, the    *)
(* handler's io.CopyN reads at most sendSize bytes out of it.              *)
(***************************************************************************)
ErrClosedPipe == "io: read/write on closed pipe"

\* pw.CloseWithError(err) and return
prodFails(c, err) ==
    [c EXCEPT !.prod.pc = "exit", !.pipe.data = "", !.pipe.wclosed = TRUE,
              !.pipe.werr = err]

\* after the payload of range i: the next part, or mw.Close()
prodNext(c) ==
    IF c.prod.i < Len(c.ranges)
    THEN [c EXCEPT !.prod.pc = "part", !.prod.i = c.prod.i + 1]
    ELSE [c EXCEPT !.prod.pc = "closing"]

\* the bytes io.CopyN finds in content[ra.start:size]
payloadLen(ra, size) == Min(ra.length, size - ra.start)

\* mw.CreatePart(ra.mimeHeader(ctype, size)): the part's header goes to the pipe
ProdCreatePart(s) ==
    /\ ~Crashed
    /\ conn[s].prod.pc = "part"
    /\ LET c == conn[s]
       IN  conn' = [conn EXCEPT ![s] =
             IF c.pipe.rclosed THEN prodFails(c, ErrClosedPipe)
             ELSE [c EXCEPT !.prod.pc = "hdrwait",
                            !.pipe.data = partHeader(c.ranges[c.prod.i], c.ctype,
                                                     c.size, c.boundary, c.prod.i = 1)]]
    /\ UNCHANGED <<call, ret, heap, probe>>

\* io.CopyN(part, bytes.NewReader(fc.content[ra.start:size]), ra.length)
ProdCopyN(s) ==
    /\ ~Crashed
    /\ conn[s].prod.pc = "payload"
    /\ LET c  == conn[s]
           ra == c.ranges[c.prod.i]
       IN  conn' = [conn EXCEPT ![s] =
             IF ra.start < 0 \/ ra.start > c.size
             THEN [c EXCEPT !.prod.pc = "panic"]
             ELSE IF ra.length <= 0 THEN prodNext(c)
             ELSE IF payloadLen(ra, c.size) = 0 THEN prodFails(c, "EOF")
             ELSE IF c.pipe.rclosed THEN prodFails(c, ErrClosedPipe)
             ELSE [c EXCEPT !.prod.pc = "datawait",
                            !.pipe.data = SubSeq(EntryOf(s).content, ra.start + 1,
                                                 ra.start + payloadLen(ra, c.size))]]
    /\ UNCHANGED <<call, ret, heap, probe>>

\* mw.Close(): the closing boundary goes to the pipe; its error is dropped
ProdClose(s) ==
    /\ ~Crashed
    /\ conn[s].prod.pc = "closing"
    /\ LET c == conn[s]
       IN  conn' = [conn EXCEPT ![s] =
             IF c.pipe.rclosed
             THEN [c EXCEPT !.prod.pc = "exit", !.pipe.wclosed = TRUE]
             ELSE [c EXCEPT !.prod.pc = "closewait",
                            !.pipe.data = closeDelimiter(c.boundary)]]
    /\ UNCHANGED <<call, ret, heap, probe>>

\* a pipe write returns: all of it was read, or the read end was closed
ProdWriteReturns(s) ==
    /\ ~Crashed
    /\ conn[s].prod.pc \in { "hdrwait", "datawait", "closewait" }
    /\ conn[s].pipe.data = "" \/ conn[s].pipe.rclosed
    /\ LET c    == conn[s]
           ra   == c.ranges[c.prod.i]
           read == c.pipe.data = ""
       IN  conn' = [conn EXCEPT ![s] =
             IF c.prod.pc = "closewait"
             THEN \* pw.Close()
                  [c EXCEPT !.prod.pc = "exit", !.pipe.data = "", !.pipe.wclosed = TRUE]
             ELSE IF ~read THEN prodFails(c, ErrClosedPipe)
             ELSE IF c.prod.pc = "hdrwait" THEN [c EXCEPT !.prod.pc = "payload"]
             ELSE IF payloadLen(ra, c.size) < ra.length THEN prodFails(c, "EOF")
             ELSE prodNext(c)]
    /\ UNCHANGED <<call, ret, heap, probe>>

\* one Read of io.CopyN(rw, pr, sendSize) and the Write of what it read
CopyRead(s) ==
    /\ ~Crashed
    /\ conn[s].pc = "copy"
    /\ conn[s].N > 0
    /\ conn[s].pipe.data # ""
    /\ LET c == conn[s]
           k == Min(c.N, Len(c.pipe.data))
       IN  conn' = [conn EXCEPT ![s] =
             [c EXCEPT !.body = c.body \o SubSeq(c.pipe.data, 1, k),
                       !.N = c.N - k,
                       !.pipe.data = From(c.pipe.data, k),
                       !.prod.written = c.prod.written + k]]
    /\ UNCHANGED <<call, ret, heap, probe>>

\* io.CopyN ends (its count is used up, or the write end is closed) and
\* ServeHTTP returns: the deferred pr.Close() runs
HandlerReturn(s) ==
    /\ ~Crashed
    /\ conn[s].pc = "copy"
    /\ conn[s].N <= 0 \/ (conn[s].pipe.data = "" /\ conn[s].pipe.wclosed)
    /\ conn' = [conn EXCEPT ![s].pc = "done", ![s].pipe.rclosed = TRUE]
    /\ UNCHANGED <<call, ret, heap, probe>>

\* the request is over, its goroutines gone: the slot takes the next request
Reset(s) ==
    /\ ~Crashed
    /\ conn[s].pc = "done"
    /\ conn[s].prod.pc \in { "none", "exit" }
    /\ conn' = [conn EXCEPT ![s] = IdleConn]
    /\ UNCHANGED <<call, ret, heap, probe>>

Next ==
    \/ NewZipAssets
    \/ NewZipAssetsStore
    \/ ServeHTTP(1, Requests(ret.handler.files))
    \/ ProdCreatePart(1)
    \/ ProdCopyN(1)
    \/ ProdClose(1)
    \/ ProdWriteReturns(1)
    \/ CopyRead(1)
    \/ HandlerReturn(1)
    \/ Reset(1)

Spec == Init /\ [][Next]_vars

(***************************************************************************)
(* Concurrent requests: every slot is a connection whose handler and       *)
(* producer goroutines interleave with those of the other slots.  The      *)
(* requests cover each outcome: 200, 206 (one range, several ranges), 304,  *)
(* 404 and 416.                                                            *)
(***************************************************************************)
ConcPathnames == { "one.zip", "e.zip", "s.rar" }

ConcRequests(files) ==
    { Request("GET", p, "", "", "", "", NoHeader) : p \in PathsOf(files) }
      \cup { Request("GET", "/" \o k, "", "", "", rg, NoHeader)
               : k \in DOMAIN files, rg \in { "bytes=1-2", "foo=0-1" } }
      \cup { Request(m, "/" \o k, "", "", "", "bytes=0-0,2-2", NoHeader)
               : m \in { "GET", "HEAD" }, k \in DOMAIN files }
      \cup { Request("GET", "/" \o k, "", "*", "", "", Preset("v1", "unset", ""))
               : k \in DOMAIN files }

InitConc ==
    /\ call \in [pathname : ConcPathnames, args : { <<>> }, fn : { "" }]
    /\ ret = [handler |-> NoHandler, err |-> ""]
    /\ heap = [a \in { FcAddr } |-> ZeroFilecontent]
    /\ conn = [s \in Slots |-> IdleConn]
    /\ probe = NoProbe

NextConc ==
    \/ NewZipAssets
    \/ NewZipAssetsStore
    \/ \E s \in Slots :
          \/ ServeHTTP(s, ConcRequests(ret.handler.files))
          \/ ProdCreatePart(s)
          \/ ProdCopyN(s)
          \/ ProdClose(s)
          \/ ProdWriteReturns(s)
          \/ CopyRead(s)
          \/ HandlerReturn(s)
          \/ Reset(s)

SpecConc == InitConc /\ [][NextConc]_vars

(***************************************************************************)
(* parseRange called directly on a header and a size                       *)
(***************************************************************************)
MaxSize == 4

\* entries of a Range header over the numbers 0..MaxSize and their negatives
Tokens == { Itoa(n) : n \in 0..MaxSize } \cup { "-1", Itoa(MinInt64), "x" }

Entries ==
    { "-" \o t : t \in Tokens } \cup { t \o "-" : t \in Tokens }
      \cup { Itoa(a) \o "-" \o Itoa(b) : a \in 0..1, b \in 0..MaxSize }

ProbeHeaders ==
    { "", "foo=0-1" } \cup { "bytes=" \o e : e \in Entries }
      \cup { "bytes=" \o e \o ", " \o f : e \in Entries, f \in { "-1", "1-", "0-0", "" } }

ProbeInit ==
    /\ call \in [pathname : { "one.zip" }, args : { <<>> }, fn : { "" }]
    /\ ret = [handler |-> NoHandler, err |-> ""]
    /\ heap = [a \in { FcAddr } |-> ZeroFilecontent]
    /\ conn = [s \in Slots |-> IdleConn]
    /\ probe \in [s : ProbeHeaders, size : 0..MaxSize, called : { FALSE },
                  err : { FALSE }, ranges : { <<>> }]

ParseRange ==
    /\ ~probe.called
    /\ LET r == parseRange(probe.s, probe.size)
       IN  probe' = [probe EXCEPT !.called = TRUE, !.err = r.err, !.ranges = r.ranges]
    /\ UNCHANGED <<call, ret, heap, conn>>

ProbeNext == ParseRange

SpecParse == ProbeInit /\ [][ProbeNext]_vars


(***************************************************************************)
(* Properties                                                              *)
(***************************************************************************)
\* the loader the suffix of the path selects in the latest revision
LoaderOf(pathname) ==
    IF HasSuffix(ToLower(pathname), ".zip") THEN "zip"
    ELSE IF HasSuffix(ToLower(pathname), ".tar.gz") THEN "tar.gz"
    ELSE IF HasSuffix(ToLower(pathname), ".tar.bz2") THEN "tar.bz2"
    ELSE ""

DebugMode == Len(call.args) # 0 /\ call.args[1] = "true"

MembersOf(pathname) == Disk(pathname).members

\* the handler of slot s has returned (or panicked)
Returned1(s) == conn[s].pc = "done"

\* C1: after a successful load of an archive with pairwise distinct member
\* names the store has exactly one key per member, and the entry under each
\* key carries that member's own name, modification time and content.
C1_EntriesAreTheMembers ==
    (/\ call.fn = "NewZipAssets"
     /\ ret.handler.kind = "ZipAssets"
     /\ ret.err = ""
     /\ LoaderOf(call.pathname) # "")
    => LET ms == MembersOf(call.pathname)
       IN  /\ DOMAIN ret.handler.files = { ms[i].name : i \in 1..Len(ms) }
           /\ \A i \in 1..Len(ms) :
                LET e == heap[ret.handler.files[ms[i].name]]
                IN  /\ e.name = ms[i].name
                    /\ e.lastModified = ms[i].mtime
                    /\ e.content = ms[i].content

\* C2: a request served with exactly one parsed range {start, length} of an
\* entry of size n gets 206, Content-Range "bytes start-(start+length-1)/n",
\* Content-Length = length (when no Content-Encoding is set) and, unless the
\* method is HEAD, the body content[start .. start+length).
C2_SingleRangeBody ==
    \A s \in Slots :
      LET c == conn[s]
      IN  (Returned1(s) /\ c.exit = "served" /\ Len(c.ranges) = 1)
          => LET r == c.ranges[1]
             IN  /\ c.status = <<StatusPartialContent>>
                 /\ HGet(c.h, "Content-Range")
                      = "bytes " \o Itoa(r.start) \o "-"
                          \o Itoa(r.start + r.length - 1) \o "/" \o Itoa(c.size)
                 /\ HGet(c.h, "Content-Encoding") = ""
                      => HGet(c.h, "Content-Length") = Itoa(r.length)
                 /\ c.req.method # "HEAD"
                      => c.body = SubSeq(EntryOf(s).content, r.start + 1,
                                         r.start + r.length)

\* C3: when a member cannot be opened or read, or a tar header cannot be
\* read, construction returns an error and nothing it returns is a store
\* holding the members loaded before the failure.
C3_NoPartialStore ==
    (call.fn # "" /\ MembersOf(call.pathname) # <<>>
       /\ \E i \in 1..Len(MembersOf(call.pathname)) :
             MembersOf(call.pathname)[i].fail # ""
       /\ ret.err \in { "open", "read", "hdr" })
    => ~(ret.handler.kind = "ZipAssets" /\ DOMAIN ret.handler.files # {})

\* C4: construction with a path that ends in none of .zip, .tar.gz, .tar.bz2,
\* debug mode aside, returns an error and no ready handler.
C4_UnknownSuffixIsAnError ==
    (call.fn = "NewZipAssets" /\ ~DebugMode /\ LoaderOf(call.pathname) = "")
    => (ret.err # "" /\ ret.handler.kind # "ZipAssets")

Statuses ==
    { StatusOK, StatusPartialContent, StatusNotModified, StatusNotFound,
      StatusRequestedRangeNotSatisfiable }

\* C5: every request is handled to completion with exactly one status out of
\* 200, 206, 304, 404, 416: no goroutine of the request panics, and no second
\* status is written.
C5_OneStatusNoPanic ==
    \A s \in Slots :
      LET c == conn[s]
      IN  /\ Len(c.status) <= 1
          /\ c.prod.pc # "panic"
          /\ Returned1(s)
               => /\ c.exit \in { "notfound", "lastmod", "etag", "range", "served" }
                  /\ Len(c.status) = 1
                  /\ c.status[1] \in Statuses

\* C6: every range parseRange returns without error has start >= 0,
\* length >= 0 and start + length <= size.
C6_RangesWithinSize ==
    (probe.called /\ ~probe.err)
    => \A i \in 1..Len(probe.ranges) :
         /\ probe.ranges[i].start >= 0
         /\ probe.ranges[i].length >= 0
         /\ probe.ranges[i].start + probe.ranges[i].length <= probe.size

\* the multipart/byteranges body of the ranges from the i-th on
RECURSIVE MultipartBody(_, _, _, _, _)
MultipartBody(ranges, i, ctype, content, boundary) ==
    IF i > Len(ranges) THEN "\r\n--" \o boundary \o "--\r\n"
    ELSE (IF i = 1 THEN "--" ELSE "\r\n--") \o boundary \o "\r\n"
         \o "Content-Range: bytes " \o Itoa(ranges[i].start) \o "-"
         \o Itoa(ranges[i].start + ranges[i].length - 1) \o "/"
         \o Itoa(Len(content)) \o "\r\n"
         \o "Content-Type: " \o ctype \o "\r\n\r\n"
         \o SubSeq(content, ranges[i].start + 1, ranges[i].start + ranges[i].length)
         \o MultipartBody(ranges, i + 1, ctype, content, boundary)

\* the request of slot s came to the switch on the number of ranges
AtRanges(s) == conn[s].exit \in { "served", "panic: nil error" }

\* C7: a request whose Range header parses to k >= 2 ranges that sum to at
\* most the entry size gets 206 with Content-Type "multipart/byteranges;
\* boundary=<token>", and once handler and producer are through (method not
\* HEAD) the body is the k parts in header order, part i with the
\* Content-Range and the bytes of range i, unmerged and unsorted.
C7_MultipartParts ==
    \A s \in Slots :
      LET c == conn[s]
      IN  (Returned1(s) /\ AtRanges(s) /\ Len(c.ranges) >= 2)
          => /\ c.status = <<StatusPartialContent>>
             /\ \E b \in Boundaries :
                  /\ HGet(c.h, "Content-Type") = "multipart/byteranges; boundary=" \o b
                  /\ (c.req.method # "HEAD" /\ c.prod.pc = "exit")
                       => c.body = MultipartBody(c.ranges, 1, c.ctype,
                                                 EntryOf(s).content, b)

\* C8: the size rangesMIMESize computes, announced as Content-Length of a
\* multi-range response, equals the number of bytes the producer writes
\* into the pipe for the same ranges (the handler reading the body, that is
\* the method not being HEAD).
C8_EncodedSizeIsWritten ==
    \A s \in Slots :
      LET c == conn[s]
      IN  (Returned1(s) /\ c.exit = "served" /\ Len(c.ranges) >= 2
             /\ c.req.method # "HEAD" /\ c.prod.pc \in { "exit", "panic" })
          => c.prod.written = c.sendSize

\* the request of slot s found its entry
Found(s) == conn[s].exit \notin { "", "notfound" }

\* the text is the HTTP date of a second d with mtime < d + 1s
DateNotBefore(ims, mtime) ==
    \E sec \in 0..(MaxSec + 1) :
       ims = "@" \o Itoa(sec) /\ mtime < (sec + 1) * TicksPerSec

\* C9: for a found entry with non-zero lastModified the handler answers 304
\* at the Last-Modified step exactly when If-Modified-Since is an HTTP date d
\* and lastModified < d + 1s; otherwise it goes on with Last-Modified set to
\* the entry's time as an HTTP date.  With a zero lastModified the header
\* If-Modified-Since is ignored and no Last-Modified is set.
C9_LastModifiedStep ==
    \A s \in Slots :
      LET c  == conn[s]
          mt == EntryOf(s).lastModified
      IN  Found(s) =>
            /\ (c.exit = "lastmod") <=> (mt # ZeroTime /\ DateNotBefore(c.req.ims, mt))
            /\ c.exit = "lastmod" => c.status = <<StatusNotModified>> /\ c.body = ""
            /\ (c.exit # "lastmod" /\ mt # ZeroTime)
                 => /\ "Last-Modified" \in DOMAIN c.h
                    /\ c.h["Last-Modified"] = <<"@" \o Itoa(mt \div TicksPerSec)>>
                    /\ c.status # <<StatusNotModified>> \/ c.exit = "etag"
            /\ mt = ZeroTime => "Last-Modified" \notin DOMAIN c.h

\* a 304 at the Last-Modified step for a date that is the second of an mtime
\* with a sub-second part, and in the same store a request that went on
C9_Witness ==
    \E s \in Slots :
       /\ Found(s)
       /\ conn[s].exit = "lastmod"
       /\ EntryOf(s).lastModified % TicksPerSec # 0
       /\ conn[s].req.ims = "@" \o Itoa(EntryOf(s).lastModified \div TicksPerSec)

\* the request passed the Last-Modified step
PassedLastModified(s) == Found(s) /\ conn[s].exit # "lastmod"

\* the ETag the caller set on the response
PresetETag(s) == HGet(conn[s].req.h0, "Etag")

\* C10: a request that passed the Last-Modified step is answered 304 at the
\* ETag step exactly when If-None-Match is non-empty, the pre-set ETag is
\* non-empty, the method is GET or HEAD and If-None-Match is the ETag or "*";
\* that response has no body and neither Content-Length nor Content-Type;
\* in every other case the step writes no status and the handler goes on.
C10_ETagStep ==
    \A s \in Slots :
      LET c == conn[s]
      IN  PassedLastModified(s) =>
            /\ (c.exit = "etag")
                 <=> /\ c.req.inm # ""
                     /\ PresetETag(s) # ""
                     /\ c.req.method \in { "GET", "HEAD" }
                     /\ (c.req.inm = PresetETag(s) \/ c.req.inm = "*")
            /\ c.exit = "etag"
                 => /\ c.status = <<StatusNotModified>>
                    /\ c.body = ""
                    /\ "Content-Length" \notin DOMAIN c.h
                    /\ "Content-Type" \notin DOMAIN c.h
            /\ c.exit # "etag"
                 => /\ c.exit \in { "range", "served", "panic: slice bounds",
                                    "panic: nil error" }
                    /\ c.status # <<StatusNotModified>>

\* a 304 at the ETag step for If-None-Match equal to the ETag, the caller
\* having set a Content-Type that the 304 drops
C10_Witness ==
    \E s \in Slots :
       /\ conn[s].exit = "etag"
       /\ conn[s].req.inm = PresetETag(s)
       /\ conn[s].req.method = "GET"
       /\ "Content-Type" \in DOMAIN conn[s].req.h0

\* the request carries an If-Range that is not the ETag set on the response
IfRangeMismatch(s) ==
    conn[s].req.ifrange # "" /\ conn[s].req.ifrange # PresetETag(s)

\* the response without ranges: 200, no Content-Range, the Content-Type the
\* caller set, Content-Length = size unless a Content-Encoding is set, and
\* the whole content as body unless the method is HEAD
FullResponse(s) ==
    LET c == conn[s]
    IN  /\ c.status = <<StatusOK>>
        /\ "Content-Range" \notin DOMAIN c.h
        /\ HGet(c.h, "Content-Type") = HGet(c.req.h0, "Content-Type")
        /\ HGet(c.h, "Content-Encoding") = ""
             => HGet(c.h, "Content-Length") = Itoa(Len(EntryOf(s).content))
        /\ c.body = IF c.req.method = "HEAD" THEN "" ELSE EntryOf(s).content

\* C11: with a non-empty If-Range that differs from the ETag set on the
\* response (no ETag included) the Range header counts as absent: the answer
\* is never 206 and never 416, no Content-Range is set, and a request that
\* comes to range resolution is served 200 with the full content, even for
\* a Range header that does not parse.  With If-Range absent or equal to the
\* ETag the Range header is the one resolved: 416 exactly when it does not
\* parse, and bytes=1-2 of an entry of 3 bytes or more gives 206 with
\* Content-Range "bytes 1-2/size".
C11_IfRange ==
    \A s \in Slots :
      LET c == conn[s]
      IN  Found(s) =>
            /\ IfRangeMismatch(s) =>
                 /\ c.status # <<StatusPartialContent>>
                 /\ c.status # <<StatusRequestedRangeNotSatisfiable>>
                 /\ "Content-Range" \notin DOMAIN c.h
                 /\ c.exit \notin { "range", "panic: nil error" }
                 /\ c.exit = "served" => (Returned1(s) /\ FullResponse(s))
            /\ (~IfRangeMismatch(s) /\ c.exit \in { "served", "range", "panic: nil error" })
                 => /\ c.rangeReq = c.req.range
                    /\ (c.exit = "range")
                         <=> parseRange(c.req.range, Len(EntryOf(s).content)).err
                    /\ c.exit = "range"
                         => c.status = <<StatusRequestedRangeNotSatisfiable>>
                    /\ c.req.range = "foo=0-1" => c.exit = "range"
                    /\ (c.req.range = "bytes=1-2" /\ Len(EntryOf(s).content) >= 3)
                         => /\ c.status = <<StatusPartialContent>>
                            /\ HGet(c.h, "Content-Range")
                                 = "bytes 1-2/" \o Itoa(Len(EntryOf(s).content))

\* a GET with If-Range v1, no ETag on the response and a Range header that
\* does not parse, served 200 with the whole content
C11_Witness ==
    \E s \in Slots :
       /\ conn[s].exit = "served"
       /\ conn[s].req.method = "GET"
       /\ conn[s].req.ifrange = "v1"
       /\ PresetETag(s) = ""
       /\ conn[s].req.range = "foo=0-1"
       /\ conn[s].status = <<StatusOK>>
       /\ conn[s].body = EntryOf(s).content
       /\ conn[s].body # ""

\* a request whose If-Range is the ETag and whose range was served
C11_WitnessHonoured ==
    \E s \in Slots :
       /\ conn[s].req.ifrange = "v1" /\ PresetETag(s) = "v1"
       /\ conn[s].req.range = "bytes=1-2"
       /\ conn[s].status = <<StatusPartialContent>>

\* the path with exactly one leading '/' removed
Stripped(p) ==
    IF Len(p) > 0 /\ SubSeq(p, 1, 1) = "/" THEN SubSeq(p, 2, Len(p)) ELSE p

\* the store as the constructor left it
StoreAsLoaded ==
    LET r == newZipAssets(call.pathname, call.args)
    IN  /\ ret.handler = r.handler
        /\ ret.err = r.err
        /\ heap = [a \in { FcAddr } |-> r.fc]

\* C12: whatever requests have been and are being handled on the
\* connections, the store's key set and every entry's name, mtime and
\* content are those right after loading; and a request that has returned
\* was answered 404 exactly when its path, one leading '/' removed, is no key
\* of the store.
C12_StoreUnchanged ==
    call.fn = "NewZipAssets" =>
      /\ StoreAsLoaded
      /\ \A s \in Slots :
           LET c == conn[s]
           IN  Returned1(s) =>
                 /\ (c.status = <<StatusNotFound>>)
                      <=> (Stripped(c.req.path) \notin DOMAIN ret.handler.files)
                 /\ c.status = <<StatusNotFound>> => c.exit = "notfound"

\* one connection answered 404 for a path with two leading slashes while the
\* other is in the middle of a multi-range response, the store unchanged
C12_Witness ==
    /\ call.fn = "NewZipAssets"
    /\ StoreAsLoaded
    /\ DOMAIN ret.handler.files # {}
    /\ \E s, t \in Slots :
         /\ s # t
         /\ conn[s].pc = "done"
         /\ conn[s].status = <<StatusNotFound>>
         /\ SubSeq(conn[s].req.path, 1, 2) = "//"
         /\ conn[t].prod.pc = "hdrwait"

\* a goroutine of the request of slot s has not come to its end
Unfinished(s) ==
    conn[s].pc = "copy" \/ conn[s].prod.pc \notin { "none", "exit" }

\* the handler or the producer of slot s can take a step
CanStep(s) ==
    ENABLED (\/ ProdCreatePart(s) \/ ProdCopyN(s) \/ ProdClose(s)
             \/ ProdWriteReturns(s) \/ CopyRead(s) \/ HandlerReturn(s))

\* C13: in a multi-range response handler and producer never block each
\* other for good: while one of the two has not come to its end one of them
\* can step, and a producer that has ended left the write end closed, so
\* that the handler's read returns.
C13_NoDeadlock ==
    \A s \in Slots :
       /\ Unfinished(s) => CanStep(s)
       /\ (conn[s].pc = "copy" /\ conn[s].prod.pc \in { "exit", "panic" })
            => conn[s].pipe.wclosed

\* a 200 or 206 response whose handler has returned
Served(s) ==
    /\ Returned1(s)
    /\ conn[s].exit = "served"
    /\ conn[s].status \in { <<StatusOK>>, <<StatusPartialContent>> }

\* C14: for every 200 or 206 response sendSize is not negative, it is the
\* entry size without ranges and the range length with one range, it is the
\* Content-Length announced (no Content-Encoding being set), and the body
\* transferred has 0 bytes for HEAD and sendSize bytes otherwise.
C14_BodyIsSendSize ==
    \A s \in Slots :
      LET c == conn[s]
      IN  Served(s) =>
            /\ c.sendSize >= 0
            /\ Len(c.ranges) = 0 => c.sendSize = Len(EntryOf(s).content)
            /\ Len(c.ranges) = 1 => c.sendSize = c.ranges[1].length
            /\ HGet(c.h, "Content-Encoding") = ""
                 => HGet(c.h, "Content-Length") = Itoa(c.sendSize)
            /\ Len(c.body) = IF c.req.method = "HEAD" THEN 0 ELSE c.sendSize

\* the sum of the lengths of the ranges, as a number
RECURSIVE SumOfLengths(_)
SumOfLengths(ranges) ==
    IF ranges = <<>> THEN 0 ELSE ranges[1].length + SumOfLengths(Tail(ranges))

\* C15: a Range header that parses to ranges whose lengths sum to more than
\* the entry size is served as if absent: 200, full content, Content-Length
\* = size, no Content-Range and no multipart Content-Type; one that parses
\* to at least one range with a sum of at most the entry size gets 206.
C15_SumDecides ==
    \A s \in Slots :
      LET c == conn[s]
          p == parseRange(c.rangeReq, Len(EntryOf(s).content))
      IN  (Returned1(s) /\ AtRanges(s) /\ ~p.err) =>
            /\ SumOfLengths(p.ranges) > Len(EntryOf(s).content) => FullResponse(s)
            /\ (Len(p.ranges) >= 1
                  /\ SumOfLengths(p.ranges) <= Len(EntryOf(s).content))
                 => c.status = <<StatusPartialContent>>

=============================================================================
